---- MODULE Spec2Model ----
(***************************************************************************)
(* Model of spl_tool: the U-Boot SPL header codec (src/src/spl_header.rs), *)
(* the CRC-32 routines (src/src/crc32.rs) and the two driver operations    *)
(* spl_create_header and spl_fix_image_header (src/src/main.rs).           *)
(*                                                                         *)
(* A u32 is the pair <<hi, lo>> of its two 16-bit halves, because TLC's    *)
(* integers are 32-bit signed.  A usize (lengths, indices) is a plain      *)
(* integer: every length of the model is far below 2^31.  Byte buffers are *)
(* sequences over 0..255; a Rust index i (0-based) is position i + 1.  A   *)
(* file, and the SPL image read from it, is kept as its bytes up to some   *)
(* position plus the count of zero bytes that follow them, so that an      *)
(* image at the size limit of 180048 bytes is a small value.               *)
(***************************************************************************)
EXTENDS Integers, Sequences, FiniteSets, TLC

VARIABLES
    hdr,      \* codec: the in-memory UbootSplHeader handed to `into()`
    bytes,    \* codec: the byte buffer handed to `try_from()` / made by `into()`
    dec,      \* codec: the Result that `try_from()` returned
    cpc,      \* codec: which conversions have run ("init", "ser", "de", "rt")
    args,     \* driver: the parsed command line (struct Args)
    conf,     \* driver: the HeaderConf spl_main builds from args
    file,     \* driver: the file named conf.name, as it is now
    file0,    \* driver: the file named conf.name, as it was when the process started
    ubootspl, \* driver: ubootspl[..sz], the bytes spl_create_header has read (a Blob)
    header,   \* driver: the local `header` of spl_create_header
    outfile,  \* driver: the file "<name>.normal.out"
    result,   \* driver: what the process ended with (NoResult until then)
    pc,       \* driver: position in spl_main
    rin,      \* crc: the word handed to crc32_reverse
    rout,     \* crc: what crc32_reverse returned, applied once and twice
    cdata,    \* crc: the byte buffer handed to crc32
    cacc,     \* crc: <<v>> once `v = crc32(!0, 0x04c1_1db7, data)` has run
    cfin      \* crc: <<crc32_final(v)>> once that has run

codecVars == <<hdr, bytes, dec, cpc>>
driverVars == <<args, conf, file, file0, ubootspl, header, outfile, result, pc>>
crcVars == <<rin, rout, cdata, cacc, cfin>>
vars == <<hdr, bytes, dec, cpc, args, conf, file, file0, ubootspl, header, outfile, result, pc,
          rin, rout, cdata, cacc, cfin>>

---------------------------------------------------------------------------
(* u32 arithmetic on <<hi, lo>> pairs *)

W16 == 2^16

\* The u32 with numeric value n, for 0 <= n < 2^31.
U32(n) == <<n \div W16, n % W16>>

\* u32::to_le_bytes: least significant byte first.
to_le_bytes(x) == <<x[2] % 256, x[2] \div 256, x[1] % 256, x[1] \div 256>>

\* u32::from_le_bytes on a 4-byte array.
from_le_bytes(b) == <<b[3] + 256 * b[4], b[1] + 256 * b[2]>>

\* usize::saturating_add; every index of the model is far below usize::MAX,
\* where the sum would saturate.
saturating_add(a, b) == a + b

\* a & b, a | b and a ^ b on 4-bit numbers: row a + 1, column b + 1.
AndNibble ==
    <<<< 0,  0,  0,  0,  0,  0,  0,  0,  0,  0,  0,  0,  0,  0,  0,  0>>,
      << 0,  1,  0,  1,  0,  1,  0,  1,  0,  1,  0,  1,  0,  1,  0,  1>>,
      << 0,  0,  2,  2,  0,  0,  2,  2,  0,  0,  2,  2,  0,  0,  2,  2>>,
      << 0,  1,  2,  3,  0,  1,  2,  3,  0,  1,  2,  3,  0,  1,  2,  3>>,
      << 0,  0,  0,  0,  4,  4,  4,  4,  0,  0,  0,  0,  4,  4,  4,  4>>,
      << 0,  1,  0,  1,  4,  5,  4,  5,  0,  1,  0,  1,  4,  5,  4,  5>>,
      << 0,  0,  2,  2,  4,  4,  6,  6,  0,  0,  2,  2,  4,  4,  6,  6>>,
      << 0,  1,  2,  3,  4,  5,  6,  7,  0,  1,  2,  3,  4,  5,  6,  7>>,
      << 0,  0,  0,  0,  0,  0,  0,  0,  8,  8,  8,  8,  8,  8,  8,  8>>,
      << 0,  1,  0,  1,  0,  1,  0,  1,  8,  9,  8,  9,  8,  9,  8,  9>>,
      << 0,  0,  2,  2,  0,  0,  2,  2,  8,  8, 10, 10,  8,  8, 10, 10>>,
      << 0,  1,  2,  3,  0,  1,  2,  3,  8,  9, 10, 11,  8,  9, 10, 11>>,
      << 0,  0,  0,  0,  4,  4,  4,  4,  8,  8,  8,  8, 12, 12, 12, 12>>,
      << 0,  1,  0,  1,  4,  5,  4,  5,  8,  9,  8,  9, 12, 13, 12, 13>>,
      << 0,  0,  2,  2,  4,  4,  6,  6,  8,  8, 10, 10, 12, 12, 14, 14>>,
      << 0,  1,  2,  3,  4,  5,  6,  7,  8,  9, 10, 11, 12, 13, 14, 15>>>>
OrNibble ==
    <<<< 0,  1,  2,  3,  4,  5,  6,  7,  8,  9, 10, 11, 12, 13, 14, 15>>,
      << 1,  1,  3,  3,  5,  5,  7,  7,  9,  9, 11, 11, 13, 13, 15, 15>>,
      << 2,  3,  2,  3,  6,  7,  6,  7, 10, 11, 10, 11, 14, 15, 14, 15>>,
      << 3,  3,  3,  3,  7,  7,  7,  7, 11, 11, 11, 11, 15, 15, 15, 15>>,
      << 4,  5,  6,  7,  4,  5,  6,  7, 12, 13, 14, 15, 12, 13, 14, 15>>,
      << 5,  5,  7,  7,  5,  5,  7,  7, 13, 13, 15, 15, 13, 13, 15, 15>>,
      << 6,  7,  6,  7,  6,  7,  6,  7, 14, 15, 14, 15, 14, 15, 14, 15>>,
      << 7,  7,  7,  7,  7,  7,  7,  7, 15, 15, 15, 15, 15, 15, 15, 15>>,
      << 8,  9, 10, 11, 12, 13, 14, 15,  8,  9, 10, 11, 12, 13, 14, 15>>,
      << 9,  9, 11, 11, 13, 13, 15, 15,  9,  9, 11, 11, 13, 13, 15, 15>>,
      <<10, 11, 10, 11, 14, 15, 14, 15, 10, 11, 10, 11, 14, 15, 14, 15>>,
      <<11, 11, 11, 11, 15, 15, 15, 15, 11, 11, 11, 11, 15, 15, 15, 15>>,
      <<12, 13, 14, 15, 12, 13, 14, 15, 12, 13, 14, 15, 12, 13, 14, 15>>,
      <<13, 13, 15, 15, 13, 13, 15, 15, 13, 13, 15, 15, 13, 13, 15, 15>>,
      <<14, 15, 14, 15, 14, 15, 14, 15, 14, 15, 14, 15, 14, 15, 14, 15>>,
      <<15, 15, 15, 15, 15, 15, 15, 15, 15, 15, 15, 15, 15, 15, 15, 15>>>>
XorNibble ==
    <<<< 0,  1,  2,  3,  4,  5,  6,  7,  8,  9, 10, 11, 12, 13, 14, 15>>,
      << 1,  0,  3,  2,  5,  4,  7,  6,  9,  8, 11, 10, 13, 12, 15, 14>>,
      << 2,  3,  0,  1,  6,  7,  4,  5, 10, 11,  8,  9, 14, 15, 12, 13>>,
      << 3,  2,  1,  0,  7,  6,  5,  4, 11, 10,  9,  8, 15, 14, 13, 12>>,
      << 4,  5,  6,  7,  0,  1,  2,  3, 12, 13, 14, 15,  8,  9, 10, 11>>,
      << 5,  4,  7,  6,  1,  0,  3,  2, 13, 12, 15, 14,  9,  8, 11, 10>>,
      << 6,  7,  4,  5,  2,  3,  0,  1, 14, 15, 12, 13, 10, 11,  8,  9>>,
      << 7,  6,  5,  4,  3,  2,  1,  0, 15, 14, 13, 12, 11, 10,  9,  8>>,
      << 8,  9, 10, 11, 12, 13, 14, 15,  0,  1,  2,  3,  4,  5,  6,  7>>,
      << 9,  8, 11, 10, 13, 12, 15, 14,  1,  0,  3,  2,  5,  4,  7,  6>>,
      <<10, 11,  8,  9, 14, 15, 12, 13,  2,  3,  0,  1,  6,  7,  4,  5>>,
      <<11, 10,  9,  8, 15, 14, 13, 12,  3,  2,  1,  0,  7,  6,  5,  4>>,
      <<12, 13, 14, 15,  8,  9, 10, 11,  4,  5,  6,  7,  0,  1,  2,  3>>,
      <<13, 12, 15, 14,  9,  8, 11, 10,  5,  4,  7,  6,  1,  0,  3,  2>>,
      <<14, 15, 12, 13, 10, 11,  8,  9,  6,  7,  4,  5,  2,  3,  0,  1>>,
      <<15, 14, 13, 12, 11, 10,  9,  8,  7,  6,  5,  4,  3,  2,  1,  0>>>>

\* A bitwise operation on two 16-bit numbers, nibble by nibble.
BitOp16(t, a, b) ==
    t[(a % 16) + 1][(b % 16) + 1]
    + 16 * t[((a \div 16) % 16) + 1][((b \div 16) % 16) + 1]
    + 256 * t[((a \div 256) % 16) + 1][((b \div 256) % 16) + 1]
    + 4096 * t[(a \div 4096) + 1][(b \div 4096) + 1]

And(a, b) == <<BitOp16(AndNibble, a[1], b[1]), BitOp16(AndNibble, a[2], b[2])>>
Or(a, b) == <<BitOp16(OrNibble, a[1], b[1]), BitOp16(OrNibble, a[2], b[2])>>
Xor(a, b) == <<BitOp16(XorNibble, a[1], b[1]), BitOp16(XorNibble, a[2], b[2])>>

\* x << k and x >> k on a u32, 0 <= k < 32: bits shifted out are lost.
Shl(x, k) ==
    IF k >= 16 THEN <<(x[2] * 2^(k - 16)) % W16, 0>>
    ELSE <<((x[1] * 2^k) % W16) + (x[2] \div 2^(16 - k)), (x[2] * 2^k) % W16>>
Shr(x, k) ==
    IF k >= 16 THEN <<0, x[1] \div 2^(k - 16)>>
    ELSE <<x[1] \div 2^k, ((x[1] % 2^k) * 2^(16 - k)) + (x[2] \div 2^k)>>


---------------------------------------------------------------------------
(* Constants of src/src/spl_header.rs *)

DEF_SOFS == U32(576)            \* 0x240
DEF_VERS == U32(16843009)       \* 0x01010101
DEF_BACKUP == U32(2097152)      \* 0x200000
DEF_RESL == U32(1024)           \* 0x400
CRC_FAILED == U32(1515870810)   \* 0x5a5a5a5a
SPL_HEADER_LEN == 1024
MAX_SPL_LEN == 180048
RES_PAD2_LEN == 636
RES_PAD3_LEN == 364
WORD_LEN == 4                   \* mem::size_of::<u32>()

Zeros(n) == [i \in 1..n |-> 0]

---------------------------------------------------------------------------
(* src/src/crc32.rs *)

MASK_55 == U32(1431655765)      \* 0x55555555
MASK_33 == U32(858993459)       \* 0x33333333
MASK_0F == U32(252645135)       \* 0x0F0F0F0F
MASK_FF00 == U32(65280)         \* 0xFF00
TOP_BIT == <<32768, 0>>         \* 0x80000000
NOT_ZERO == <<65535, 65535>>    \* !0u32
POLY == U32(79764919)           \* 0x04c1_1db7

\* Mutant of crc32_reverse: the byte swap loses the term `x >> 24`.
crc32_reverseNoLowByte(x0) ==
    LET x1 == Or(Shl(And(x0, MASK_55), 1), And(Shr(x0, 1), MASK_55))
        x2 == Or(Shl(And(x1, MASK_33), 2), And(Shr(x1, 2), MASK_33))
        x3 == Or(Shl(And(x2, MASK_0F), 4), And(Shr(x2, 4), MASK_0F))
    IN  Or(Or(Shl(x3, 24), Shl(And(x3, MASK_FF00), 8)), And(Shr(x3, 8), MASK_FF00))

crc32_reverse(x0) ==
    LET x1 == Or(Shl(And(x0, MASK_55), 1), And(Shr(x0, 1), MASK_55))
        x2 == Or(Shl(And(x1, MASK_33), 2), And(Shr(x1, 2), MASK_33))
        x3 == Or(Shl(And(x2, MASK_0F), 4), And(Shr(x2, 4), MASK_0F))
    IN  Or(Or(Or(Shl(x3, 24), Shl(And(x3, MASK_FF00), 8)), And(Shr(x3, 8), MASK_FF00)),
           Shr(x3, 24))

\* Mutant of crc32_bit: the test looks at the accumulator alone.
crc32_bitNoSum(crc, sum, sv) ==
    IF And(crc, TOP_BIT) # <<0, 0>> THEN Xor(Shl(crc, 1), sv) ELSE Shl(crc, 1)

\* One pass of the inner loop body (lines 30-34), sum already shifted.
crc32_bit(crc, sum, sv) ==
    IF And(Xor(crc, sum), TOP_BIT) # <<0, 0>> THEN Xor(Shl(crc, 1), sv) ELSE Shl(crc, 1)

\* The loops below carry their state through a bound variable
\* (`CHOOSE r \in {F(c) : c \in {v}} : TRUE` is F(v) with v computed first),
\* so that each pass works on a value and not on a growing expression.

\* `for x in 0..8` from iteration x on (lines 28-35).
RECURSIVE crc32_bits(_, _, _, _)
crc32_bits(crc, sum, sv, x) ==
    IF x = 8 THEN crc
    ELSE CHOOSE r \in {crc32_bits(crc1, sum1, sv, x + 1) :
                          sum1 \in {Shl(sum, IF x # 0 THEN 1 ELSE 0)},
                          crc1 \in {crc32_bit(crc, Shl(sum, IF x # 0 THEN 1 ELSE 0), sv)}} : TRUE

\* `for &byte in data.iter()` from the byte at position i on (lines 26-36).
RECURSIVE crc32_bytes(_, _, _, _)
crc32_bytes(crc, sv, data, i) ==
    IF i > Len(data) THEN crc
    ELSE CHOOSE r \in {crc32_bytes(crc1, sv, data, i + 1) :
                          crc1 \in {crc32_bits(crc, crc32_reverse(U32(data[i])), sv, 0)}} : TRUE

crc32(iv, sv, data) == crc32_bytes(iv, sv, data, 1)

crc32_final(iv) == crc32_reverse(Xor(iv, NOT_ZERO))

\* The CRC routines are not being exercised on their own.
CrcIdle ==
    /\ rin = <<0, 0>> /\ rout = <<>> /\ cdata = <<>> /\ cacc = <<>> /\ cfin = <<>>

---------------------------------------------------------------------------
(* Result<T, Error>, plus the panic a slice index out of range raises *)

NoErr == [kind |-> "None", a |-> 0, b |-> 0]
InvalidHeaderLen(actual, expected) == [kind |-> "InvalidHeaderLen", a |-> actual, b |-> expected]
InvalidSplLen(actual, max) == [kind |-> "InvalidSplLen", a |-> actual, b |-> max]
InvalidSlice == [kind |-> "InvalidSlice", a |-> 0, b |-> 0]
InvalidHeaderFile == [kind |-> "InvalidHeaderFile", a |-> 0, b |-> 0]
InvalidSplFile == [kind |-> "InvalidSplFile", a |-> 0, b |-> 0]

Ok(v) == [tag |-> "Ok", val |-> v, err |-> NoErr]
Err(e) == [tag |-> "Err", val |-> <<>>, err |-> e]
Panic == [tag |-> "Panic", val |-> <<>>, err |-> NoErr]
NoResult == [tag |-> "None", val |-> <<>>, err |-> NoErr]

---------------------------------------------------------------------------
(* UbootSplHeader *)

\* UbootSplHeader::new
UbootSplHeader_new ==
    [sofs |-> DEF_SOFS, bofs |-> DEF_BACKUP, zro2 |-> Zeros(RES_PAD2_LEN),
     vers |-> DEF_VERS, fsiz |-> U32(0), resl |-> DEF_RESL, crcs |-> U32(0),
     zro3 |-> Zeros(RES_PAD3_LEN)]

set_bofs(h, val) == [h EXCEPT !.bofs = val]
set_vers(h, val) == [h EXCEPT !.vers = val]
set_fsiz(h, val) == [h EXCEPT !.fsiz = val]
set_crcs(h, val) == [h EXCEPT !.crcs = val]

\* res[lo..hi].copy_from_slice(src), with hi - lo = Len(src).
CopyFromSlice(res, lo, hi, src) ==
    [i \in 1..Len(res) |-> IF lo < i /\ i <= hi THEN src[i - lo] ELSE res[i]]

\* Mutant of Serialize: VERS and FSIZ written in each other's place.
SerializeSwapped(val) ==
    LET res0 == Zeros(SPL_HEADER_LEN)
        res1 == CopyFromSlice(res0, 0, 4, to_le_bytes(val.sofs))
        res2 == CopyFromSlice(res1, 4, 8, to_le_bytes(val.bofs))
        res3 == CopyFromSlice(res2, 644, 648, to_le_bytes(val.fsiz))
        res4 == CopyFromSlice(res3, 648, 652, to_le_bytes(val.vers))
        res5 == CopyFromSlice(res4, 652, 656, to_le_bytes(val.resl))
    IN  CopyFromSlice(res5, 656, 660, to_le_bytes(val.crcs))

\* impl From<&UbootSplHeader> for [u8; SPL_HEADER_LEN].  The buffer starts
\* all-zero; val.zro2 and val.zro3 are never read: idx only steps over zro2,
\* and nothing follows the CRCS field.
Serialize(val) ==
    LET res0 == Zeros(SPL_HEADER_LEN)
        idx0 == 0
        res1 == CopyFromSlice(res0, idx0, saturating_add(idx0, WORD_LEN), to_le_bytes(val.sofs))
        idx1 == saturating_add(idx0, WORD_LEN)
        res2 == CopyFromSlice(res1, idx1, saturating_add(idx1, WORD_LEN), to_le_bytes(val.bofs))
        idx2 == saturating_add(idx1, WORD_LEN)
        idx3 == saturating_add(idx2, RES_PAD2_LEN)
        res3 == CopyFromSlice(res2, idx3, saturating_add(idx3, WORD_LEN), to_le_bytes(val.vers))
        idx4 == saturating_add(idx3, WORD_LEN)
        res4 == CopyFromSlice(res3, idx4, saturating_add(idx4, WORD_LEN), to_le_bytes(val.fsiz))
        idx5 == saturating_add(idx4, WORD_LEN)
        res5 == CopyFromSlice(res4, idx5, saturating_add(idx5, WORD_LEN), to_le_bytes(val.resl))
        idx6 == saturating_add(idx5, WORD_LEN)
    IN  CopyFromSlice(res5, idx6, saturating_add(idx6, WORD_LEN), to_le_bytes(val.crcs))

\* `val[lo..hi].try_into()` for an array of n bytes: indexing past the end of
\* the slice panics; a slice of another length than n is a TryFromSliceError,
\* which `?` turns into Error::InvalidSlice.
TryInto(val, lo, hi, n) ==
    IF hi > Len(val) \/ lo > hi THEN Panic
    ELSE IF hi - lo # n THEN Err(InvalidSlice)
    ELSE Ok(SubSeq(val, lo + 1, hi))

\* The else branch of TryFrom (lines 211-259): every field read at its
\* running index.  The last slice runs over RES_PAD2_LEN bytes (line 248)
\* although the array zro3 holds RES_PAD3_LEN.
TryFromFields(val) ==
    LET idx0 == 0
        sofs == TryInto(val, idx0, saturating_add(idx0, WORD_LEN), WORD_LEN)
        idx1 == saturating_add(idx0, WORD_LEN)
        bofs == TryInto(val, idx1, saturating_add(idx1, WORD_LEN), WORD_LEN)
        idx2 == saturating_add(idx1, WORD_LEN)
        zro2 == TryInto(val, idx2, saturating_add(idx2, RES_PAD2_LEN), RES_PAD2_LEN)
        idx3 == saturating_add(idx2, RES_PAD2_LEN)
        vers == TryInto(val, idx3, saturating_add(idx3, WORD_LEN), WORD_LEN)
        idx4 == saturating_add(idx3, WORD_LEN)
        fsiz == TryInto(val, idx4, saturating_add(idx4, WORD_LEN), WORD_LEN)
        idx5 == saturating_add(idx4, WORD_LEN)
        resl == TryInto(val, idx5, saturating_add(idx5, WORD_LEN), WORD_LEN)
        idx6 == saturating_add(idx5, WORD_LEN)
        crcs == TryInto(val, idx6, saturating_add(idx6, WORD_LEN), WORD_LEN)
        idx7 == saturating_add(idx6, WORD_LEN)
        zro3 == TryInto(val, idx7, saturating_add(idx7, RES_PAD2_LEN), RES_PAD3_LEN)
    IN  IF sofs.tag # "Ok" THEN sofs
        ELSE IF bofs.tag # "Ok" THEN bofs
        ELSE IF zro2.tag # "Ok" THEN zro2
        ELSE IF vers.tag # "Ok" THEN vers
        ELSE IF fsiz.tag # "Ok" THEN fsiz
        ELSE IF resl.tag # "Ok" THEN resl
        ELSE IF crcs.tag # "Ok" THEN crcs
        ELSE IF zro3.tag # "Ok" THEN zro3
        ELSE Ok([sofs |-> from_le_bytes(sofs.val), bofs |-> from_le_bytes(bofs.val),
                 zro2 |-> zro2.val, vers |-> from_le_bytes(vers.val),
                 fsiz |-> from_le_bytes(fsiz.val), resl |-> from_le_bytes(resl.val),
                 crcs |-> from_le_bytes(crcs.val), zro3 |-> zro3.val])

\* Mutant of TryFrom: the length check left out.
TryFromNoLenCheck(val) == TryFromFields(val)

\* impl TryFrom<&[u8]> for UbootSplHeader (lines 205-261).
TryFrom(val) ==
    IF Len(val) < SPL_HEADER_LEN
    THEN Err(InvalidHeaderLen(Len(val), SPL_HEADER_LEN))
    ELSE TryFromFields(val)

---------------------------------------------------------------------------
(* Inputs of the codec *)

MaxShort == 2      \* buffers of 0..MaxShort bytes
MaxExtra == 1      \* buffers up to MaxExtra bytes past a boundary

\* A buffer of n bytes whose byte at index i is (add + mul * i) mod 256.
Pattern(n, add, mul) == [i \in 1..n |-> (add + mul * (i - 1)) % 256]

Fills == {<<0, 0>>, <<255, 0>>, <<1, 7>>}

\* Values of the type UbootSplHeader: each u32 field at its default or at
\* another value, distinct per field, and each reserved array zero or not.
FieldSets ==
    {[sofs |-> DEF_SOFS, bofs |-> DEF_BACKUP, vers |-> DEF_VERS,
      fsiz |-> U32(0), resl |-> DEF_RESL, crcs |-> U32(0)],
     [sofs |-> <<4386, 13124>>, bofs |-> <<65535, 65535>>, vers |-> <<41394, 50132>>,
      fsiz |-> U32(MAX_SPL_LEN - 1), resl |-> <<32768, 1>>, crcs |-> CRC_FAILED],
     [sofs |-> DEF_SOFS, bofs |-> U32(1), vers |-> U32(2),
      fsiz |-> U32(3), resl |-> DEF_RESL, crcs |-> <<52212, 14630>>]}

Headers ==
    {[sofs |-> f.sofs, bofs |-> f.bofs, zro2 |-> Pattern(RES_PAD2_LEN, p2[1], p2[2]),
      vers |-> f.vers, fsiz |-> f.fsiz, resl |-> f.resl, crcs |-> f.crcs,
      zro3 |-> Pattern(RES_PAD3_LEN, p3[1], p3[2])] :
        f \in FieldSets, p2 \in Fills, p3 \in Fills}

\* The end index of the zro3 slice of line 248.
Zro3SliceEnd == (4 * WORD_LEN) + RES_PAD2_LEN + (2 * WORD_LEN) + RES_PAD2_LEN

BufferLens ==
    (0..MaxShort)
    \cup ((SPL_HEADER_LEN - 1 - MaxExtra)..(SPL_HEADER_LEN + MaxExtra))
    \cup ((Zro3SliceEnd - 1 - MaxExtra)..(Zro3SliceEnd + MaxExtra))

Buffers == {Pattern(n, p[1], p[2]) : n \in BufferLens, p \in Fills}

---------------------------------------------------------------------------
(* The codec as a state machine: a header is serialized, a buffer decoded *)

DriverIdle ==
    /\ args = <<>> /\ conf = <<>> /\ file = <<>> /\ file0 = <<>> /\ ubootspl = <<>>
    /\ header = <<>> /\ outfile = <<>> /\ result = NoResult /\ pc = "idle"

Init ==
    /\ \/ hdr \in Headers /\ bytes = <<>>
       \/ hdr = UbootSplHeader_new /\ bytes \in Buffers
    /\ dec = NoResult
    /\ cpc = "init"
    /\ DriverIdle
    /\ CrcIdle

\* let b: [u8; SPL_HEADER_LEN] = (&hdr).into();
Into ==
    /\ cpc = "init"
    /\ bytes = <<>>
    /\ bytes' = Serialize(hdr)
    /\ cpc' = "ser"
    /\ UNCHANGED <<hdr, dec>>
    /\ UNCHANGED driverVars
    /\ UNCHANGED crcVars

\* UbootSplHeader::try_from(bytes), on a given buffer or on what into() made.
TryFromBytes ==
    /\ cpc \in {"init", "ser"}
    /\ dec' = TryFrom(bytes)
    /\ cpc' = IF cpc = "ser" THEN "rt" ELSE "de"
    /\ UNCHANGED <<hdr, bytes>>
    /\ UNCHANGED driverVars
    /\ UNCHANGED crcVars

Next == Into \/ TryFromBytes

Spec == Init /\ [][Next]_vars


---------------------------------------------------------------------------
(* src/src/main.rs: the command line, the files and the two operations *)

MaxPayloadLen == 2   \* SPL images whose CRC the model follows have 1..MaxPayloadLen bytes
MaxOver == 1         \* SPL images up to MaxOver bytes past MAX_SPL_LEN

\* Option<T>
None == <<>>
Some(v) == <<v>>

\* A byte string: the bytes `data`, then `pad` zero bytes.
Blob(d, n) == [data |-> d, pad |-> n]
BlobLen(b) == Len(b.data) + b.pad

\* The first n bytes of a byte string or file, n <= BlobLen(b), as a sequence.
Take(b, n) ==
    IF n <= Len(b.data) THEN SubSeq(b.data, 1, n)
    ELSE b.data \o Zeros(n - Len(b.data))

\* A file of the file system: absent, or present with its contents.
NoFile == [exists |-> FALSE, data |-> <<>>, pad |-> 0]
File(d) == [exists |-> TRUE, data |-> d, pad |-> 0]
Sparse(d, n) == [exists |-> TRUE, data |-> d, pad |-> n]

\* clap's `default_value = "0"` (lines 30 and 33): an option not given is 0.
DefaultValue(opt) == IF opt = None THEN U32(0) ELSE opt[1]

\* HeaderConf::new (spl_header.rs); the name field is left out, only the
\* contents of the file it names are modelled.
HeaderConf_new ==
    [vers |-> DEF_VERS, bofs |-> DEF_BACKUP, create_header |-> FALSE, fix_image_header |-> FALSE]

\* Lines 54-73 of spl_main: Args::parse() and the HeaderConf built from it.
BuildConf(a) ==
    [HeaderConf_new EXCEPT !.vers = DefaultValue(a.version),
                           !.bofs = DefaultValue(a.sbl_bak_addr),
                           !.create_header = a.create_spl_header,
                           !.fix_image_header = a.fix_img_header]

\* Mutant of ApplyOverrides: the overrides are applied also when they are 0.
ApplyOverridesAlways(h, c) == set_vers(set_bofs(h, c.bofs), c.vers)

\* Lines 90-95 of spl_create_header.
ApplyOverrides(h, c) ==
    LET h1 == IF c.bofs # U32(0) THEN set_bofs(h, c.bofs) ELSE h
    IN  IF c.vers # U32(0) THEN set_vers(h1, c.vers) ELSE h1

\* f.read(&mut ubootspl) on a buffer of MAX_SPL_LEN bytes (lines 104-114):
\* the number of bytes read.  The read is taken to fill the buffer as far as
\* the file goes, as it does for a regular file.
ReadLen(f) == IF BlobLen(f) < MAX_SPL_LEN THEN BlobLen(f) ELSE MAX_SPL_LEN

\* ubootspl[..sz] after that read: the first ReadLen(f) bytes of the file.
ReadSpl(f) ==
    IF ReadLen(f) <= Len(f.data)
    THEN Blob(SubSeq(f.data, 1, ReadLen(f)), 0)
    ELSE Blob(f.data, ReadLen(f) - Len(f.data))

\* Mutant of SplLenCheck: `>` for `>=`.
SplLenCheckOffByOne(sz) ==
    IF sz > MAX_SPL_LEN THEN Err(InvalidSplLen(sz, MAX_SPL_LEN))
    ELSE IF sz = 0 THEN Err(InvalidSplLen(sz, MAX_SPL_LEN))
    ELSE Ok(<<>>)

\* The size check of spl_create_header (lines 117-123).
SplLenCheck(sz) ==
    IF sz >= MAX_SPL_LEN THEN Err(InvalidSplLen(sz, MAX_SPL_LEN))
    ELSE IF sz = 0 THEN Err(InvalidSplLen(sz, MAX_SPL_LEN))
    ELSE Ok(<<>>)

\* Mutant of FinishHeader: the CRC is stored without its final round.
FinishHeaderNoFinal(h, data) ==
    CHOOSE r \in {set_crcs(set_fsiz(h, U32(Len(data))), v) :
                    v \in {crc32(NOT_ZERO, POLY, data)}} : TRUE

\* Lines 124 and 131-132: `header.set_fsiz(sz as u32)`, then
\* `let v = crc32(!0, 0x04c1_1db7, &ubootspl[..sz])` and
\* `header.set_crcs(crc32_final(v))`; data is ubootspl[..sz].
FinishHeader(h, data) ==
    CHOOSE r \in {set_crcs(set_fsiz(h, U32(Len(data))), crc32_final(v)) :
                    v \in {crc32(NOT_ZERO, POLY, data)}} : TRUE

(* Inputs of the driver *)

Overrides == {None, Some(U32(0)), Some(<<43981, 4660>>)}

ArgsSet ==
    [create_spl_header : BOOLEAN, fix_img_header : BOOLEAN,
     sbl_bak_addr : Overrides, version : Overrides]

PayloadBytes == {49, 255}

RECURSIVE SeqsUpTo(_, _)
SeqsUpTo(S, n) ==
    IF n = 0 THEN {<<>>}
    ELSE LET shorter == SeqsUpTo(S, n - 1)
         IN  shorter \cup {Append(q, b) : q \in {t \in shorter : Len(t) = n - 1}, b \in S}

\* SPL images: no file, the empty file and every image of up to
\* MaxPayloadLen bytes over PayloadBytes.
SmallFiles == {NoFile} \cup {File(d) : d \in SeqsUpTo(PayloadBytes, MaxPayloadLen)}

\* Images that begin with a header, as the fix-header path expects them:
\* exactly a header, and a header followed by an image.
HeaderFiles ==
    {File(Pattern(n, p[1], p[2])) :
        n \in (SPL_HEADER_LEN - 1)..(SPL_HEADER_LEN + MaxOver), p \in Fills}
    \cup {File(Serialize(FinishHeader(UbootSplHeader_new, <<49>>)) \o <<49>>)}

\* Images at the size limit of spl_create_header.
LimitFiles ==
    {Sparse(<<127, 69>>, n - 2) : n \in (MAX_SPL_LEN - 1)..(MAX_SPL_LEN + MaxOver)}

DefaultArgs(create, fix) ==
    [create_spl_header |-> create, fix_img_header |-> fix,
     sbl_bak_addr |-> None, version |-> None]

CodecIdle ==
    /\ hdr = UbootSplHeader_new /\ bytes = <<>> /\ dec = NoResult /\ cpc = "idle"

InitDriver ==
    /\ \/ args \in ArgsSet /\ file \in SmallFiles
       \/ args \in {a \in ArgsSet : ~a.create_spl_header} /\ file \in HeaderFiles
       \/ args = DefaultArgs(TRUE, FALSE) /\ file \in LimitFiles
    /\ file0 = file
    /\ conf = HeaderConf_new
    /\ ubootspl = Blob(<<>>, 0)
    /\ header = UbootSplHeader_new
    /\ outfile = NoFile
    /\ result = NoResult
    /\ pc = "main"
    /\ CodecIdle
    /\ CrcIdle

\* spl_main, lines 51-75: the configuration is built from the arguments.
SplMain ==
    /\ pc = "main"
    /\ conf' = BuildConf(args)
    /\ pc' = "create"
    /\ UNCHANGED <<args, file, file0, ubootspl, header, outfile, result>>
    /\ UNCHANGED codecVars
    /\ UNCHANGED crcVars

\* spl_create_header, lines 84-123: nothing to do without the flag;
\* otherwise the header is made, the image read and its size checked.  An
\* error ends the process (`?` in spl_main).
SplCreateHeaderRead ==
    /\ pc = "create"
    /\ IF ~conf.create_header
       THEN /\ pc' = "fix"
            /\ UNCHANGED <<ubootspl, header, result>>
       ELSE IF ~file.exists
       THEN /\ result' = Err(InvalidSplFile)
            /\ pc' = "done"
            /\ header' = ApplyOverrides(UbootSplHeader_new, conf)
            /\ UNCHANGED ubootspl
       ELSE /\ header' = ApplyOverrides(UbootSplHeader_new, conf)
            /\ ubootspl' = ReadSpl(file)
            /\ IF SplLenCheck(ReadLen(file)).tag = "Err"
               THEN result' = SplLenCheck(ReadLen(file)) /\ pc' = "done"
               ELSE UNCHANGED result /\ pc' = "write"
    /\ UNCHANGED <<args, conf, file, file0, outfile>>
    /\ UNCHANGED codecVars
    /\ UNCHANGED crcVars

\* spl_create_header, lines 124-151: size and CRC go into the header, the
\* output file is created and gets the header bytes, then the image.
\* File::create and write_all are taken to succeed.
SplCreateHeaderWrite ==
    /\ pc = "write"
    /\ BlobLen(ubootspl) <= MaxPayloadLen
    /\ LET spl == Take(ubootspl, BlobLen(ubootspl))
       IN  /\ header' = FinishHeader(header, spl)
           /\ outfile' = File(Serialize(header') \o spl)
    /\ pc' = "fix"
    /\ UNCHANGED <<args, conf, file, file0, ubootspl, result>>
    /\ UNCHANGED codecVars
    /\ UNCHANGED crcVars

\* spl_fix_image_header, lines 157-208: nothing to do without the flag;
\* otherwise the first SPL_HEADER_LEN bytes are read (read_exact fails on a
\* shorter file) and decoded, a panic or an error of the decoder ending the
\* process.  Past the decoder the header would get its two fields set and be
\* written back at offset 0, but the file was opened with File::open, that
\* is read-only, so the write_all of line 198 fails.
SplFixImageHeader ==
    /\ pc = "fix"
    /\ pc' = "done"
    /\ IF ~conf.fix_image_header
       THEN result' = Ok(<<>>)
       ELSE IF ~file.exists \/ BlobLen(file) < SPL_HEADER_LEN
       THEN result' = Err(InvalidSplFile)
       ELSE LET img_bytes == Take(file, SPL_HEADER_LEN)
                img_header == TryFrom(img_bytes)
            IN  IF img_header.tag # "Ok"
                THEN result' = img_header
                ELSE result' = Err(InvalidSplFile)
    /\ UNCHANGED <<args, conf, file, file0, ubootspl, header, outfile>>
    /\ UNCHANGED codecVars
    /\ UNCHANGED crcVars

NextDriver == SplMain \/ SplCreateHeaderRead \/ SplCreateHeaderWrite \/ SplFixImageHeader

SpecDriver == InitDriver /\ [][NextDriver]_vars

---------------------------------------------------------------------------
(* The CRC routines as a state machine: a word is bit-reversed, once and  *)
(* again, and a buffer is summed as spl_create_header sums the SPL image  *)

MaxDataLen == 2      \* buffers of up to MaxDataLen bytes over CrcBytes

\* Words for crc32_reverse: every word of one bit, and every pairing of a
\* few 16-bit halves.
HalfWords == {0, 1, 32768, 65535, 4660, 43981, 255, 21845}

Words ==
    {<<h, l>> : h \in HalfWords, l \in HalfWords}
    \cup {<<2^i, 0>> : i \in 0..15} \cup {<<0, 2^i>> : i \in 0..15}

CrcBytes == {0, 49, 128, 255}

\* The ASCII digits "123456789".
CheckString == <<49, 50, 51, 52, 53, 54, 55, 56, 57>>

CrcData == SeqsUpTo(CrcBytes, MaxDataLen) \cup {CheckString}

InitCrc ==
    /\ \/ rin \in Words /\ cdata = <<>>
       \/ rin = <<0, 0>> /\ cdata \in CrcData
    /\ rout = <<>>
    /\ cacc = <<>>
    /\ cfin = <<>>
    /\ CodecIdle
    /\ DriverIdle

\* crc32_reverse, on the word given and then on its own result.
Crc32Reverse ==
    /\ Len(rout) < 2
    /\ rout' = Append(rout, crc32_reverse(IF rout = <<>> THEN rin ELSE rout[Len(rout)]))
    /\ UNCHANGED <<rin, cdata, cacc, cfin>>
    /\ UNCHANGED codecVars
    /\ UNCHANGED driverVars

\* let v = crc32(!0, 0x04c1_1db7, data);
Crc32 ==
    /\ cacc = <<>>
    /\ cacc' = <<crc32(NOT_ZERO, POLY, cdata)>>
    /\ UNCHANGED <<rin, rout, cdata, cfin>>
    /\ UNCHANGED codecVars
    /\ UNCHANGED driverVars

\* crc32_final(v)
Crc32Final ==
    /\ cacc # <<>>
    /\ cfin = <<>>
    /\ cfin' = <<crc32_final(cacc[1])>>
    /\ UNCHANGED <<rin, rout, cdata, cacc>>
    /\ UNCHANGED codecVars
    /\ UNCHANGED driverVars

NextCrc == Crc32Reverse \/ Crc32 \/ Crc32Final

SpecCrc == InitCrc /\ [][NextCrc]_vars

---------------------------------------------------------------------------
(* Properties of the codec, checked under Spec *)

\* The u32 stored little-endian in the four bytes of b from index off.
LeAt(b, off) == <<b[off + 3] + 256 * b[off + 4], b[off + 1] + 256 * b[off + 2]>>

\* C1: deserialize(serialize(h)) returns Ok(h), reserved bytes included.
C1_RoundTrip ==
    cpc = "rt" => (dec.tag = "Ok" /\ dec.val = hdr)

\* C2: on every buffer of at least 1024 bytes deserialize returns Ok with the
\* six fields read little-endian at offsets 0, 4, 644, 648, 652, 656 and the
\* reserved arrays equal to bytes 8..644 and 660..1024.
C2_DecodeSucceeds ==
    (cpc \in {"de", "rt"} /\ Len(bytes) >= 1024) =>
        /\ dec.tag = "Ok"
        /\ dec.val = [sofs |-> LeAt(bytes, 0), bofs |-> LeAt(bytes, 4),
                      zro2 |-> SubSeq(bytes, 9, 644), vers |-> LeAt(bytes, 644),
                      fsiz |-> LeAt(bytes, 648), resl |-> LeAt(bytes, 652),
                      crcs |-> LeAt(bytes, 656), zro3 |-> SubSeq(bytes, 661, 1024)]

C4_FieldsAtOffsets ==
    cpc = "ser" =>
        /\ Len(bytes) = 1024
        /\ \A i \in 1..1024 : bytes[i] \in 0..255
        /\ LeAt(bytes, 0) = hdr.sofs
        /\ LeAt(bytes, 4) = hdr.bofs
        /\ LeAt(bytes, 644) = hdr.vers
        /\ LeAt(bytes, 648) = hdr.fsiz
        /\ LeAt(bytes, 652) = hdr.resl
        /\ LeAt(bytes, 656) = hdr.crcs

\* A header whose six fields are pairwise different has been serialized.
C4_Witness ==
    /\ cpc = "ser"
    /\ Cardinality({hdr.sofs, hdr.bofs, hdr.vers, hdr.fsiz, hdr.resl, hdr.crcs}) = 6
    /\ LeAt(bytes, 644) = hdr.vers

\* C10: on a buffer of n < 1024 bytes, the empty one included, deserialize
\* fails with InvalidHeaderLen(actual = n, expected = 1024).
C10_ShortBufferRejected ==
    (cpc = "de" /\ Len(bytes) < 1024) =>
        /\ dec.tag = "Err"
        /\ dec.err.kind = "InvalidHeaderLen"
        /\ dec.err.a = Len(bytes)
        /\ dec.err.b = 1024

\* A buffer one byte short of a header has been rejected.
C10_Witness ==
    /\ cpc = "de"
    /\ Len(bytes) = 1023
    /\ dec.tag = "Err"
    /\ dec.err = InvalidHeaderLen(1023, 1024)

---------------------------------------------------------------------------
(* Properties of the driver, checked under SpecDriver *)

\* The fix-header path has run on a file that holds a whole header.
FixedAHeader ==
    /\ pc = "done"
    /\ conf.fix_image_header
    /\ file0.exists
    /\ BlobLen(file0) >= 1024

\* What an override stands for: the value given, or the default for 0 or none.
Effective(opt, default) ==
    IF opt = None \/ opt = Some(U32(0)) THEN default ELSE opt[1]

\* C5: on every existing header fix_existing_header succeeds, and the header
\* written back has checksum 0x5A5A5A5A at 656..660 and, at 4..8, the
\* backup-offset override, or 0x200000 when that is zero or absent.
C5_FixSetsMarker ==
    FixedAHeader =>
        /\ result.tag = "Ok"
        /\ LeAt(Take(file, 1024), 656) = U32(1515870810)
        /\ LeAt(Take(file, 1024), 4) = Effective(args.sbl_bak_addr, U32(2097152))

\* C6: the fix-header path writes the header back with every byte outside
\* 4..8 and 656..660 as it was read, and writes nothing from offset 1024 on.
C6_FixChangesTwoFields ==
    FixedAHeader =>
        /\ result.tag = "Ok"
        /\ LeAt(Take(file, 1024), 656) = U32(1515870810)
        /\ BlobLen(file) = BlobLen(file0)
        /\ \A i \in 1..BlobLen(file0) :
              (i \notin (5..8) \cup (657..660)) =>
                  Take(file, BlobLen(file))[i] = Take(file0, BlobLen(file0))[i]

\* C7: for a payload of n bytes, 0 < n < 180048, create_header succeeds; the
\* output is 1024 header bytes and then the n payload bytes, the header with
\* start_offset 0x240, result_offset 0x400, image_size n, checksum
\* finalize(checksum(0xFFFFFFFF, 0x04C11DB7, payload)) and zero reserved bytes.
C7_CreateHeader ==
    (/\ pc \in {"fix", "done"}
     /\ conf.create_header
     /\ file0.exists
     /\ 0 < BlobLen(file0)
     /\ BlobLen(file0) < 180048) =>
        /\ outfile.exists
        /\ Len(outfile.data) = 1024 + BlobLen(file0)
        /\ LeAt(outfile.data, 0) = U32(576)
        /\ LeAt(outfile.data, 652) = U32(1024)
        /\ LeAt(outfile.data, 648) = U32(BlobLen(file0))
        /\ \E v \in {crc32(<<65535, 65535>>, U32(79764919), Take(file0, BlobLen(file0)))} :
              LeAt(outfile.data, 656) = crc32_final(v)
        /\ \A i \in (9..644) \cup (661..1024) : outfile.data[i] = 0
        /\ SubSeq(outfile.data, 1025, Len(outfile.data)) = Take(file0, BlobLen(file0))

\* An output file has been written for a payload of two bytes.
C7_Witness ==
    /\ pc = "fix"
    /\ conf.create_header
    /\ BlobLen(file0) = 2
    /\ outfile.exists
    /\ Len(outfile.data) = 1026
    /\ LeAt(outfile.data, 648) = U32(2)

C9_Overrides ==
    outfile.exists =>
        /\ LeAt(outfile.data, 644) = Effective(args.version, U32(16843009))
        /\ LeAt(outfile.data, 4) = Effective(args.sbl_bak_addr, U32(2097152))

\* A header has been written with a version override of 0 and a backup
\* offset given.
C9_Witness ==
    /\ outfile.exists
    /\ args.version = Some(U32(0))
    /\ args.sbl_bak_addr = Some(<<43981, 4660>>)
    /\ LeAt(outfile.data, 644) = U32(16843009)
    /\ LeAt(outfile.data, 4) = <<43981, 4660>>

---------------------------------------------------------------------------
(* Properties of the CRC routines, checked under SpecCrc *)

\* Bit i (0 the lowest) of a 32-bit word.
Bit(w, i) == IF i < 16 THEN (w[2] \div 2^i) % 2 ELSE (w[1] \div 2^(i - 16)) % 2

\* C11: reverse32 maps bit i of x to bit 31 - i, and so
\* reverse32(reverse32(x)) = x.
C11_ReverseInvolution ==
    /\ Len(rout) >= 1 => \A i \in 0..31 : Bit(rout[1], 31 - i) = Bit(rin, i)
    /\ Len(rout) = 2 => rout[2] = rin

\* A word that is not its own reversal has been reversed twice.
C11_Witness ==
    /\ rin = <<4660, 43981>>
    /\ Len(rout) = 2
    /\ rout[1] = <<46037, 11336>>
    /\ rout[2] = rin

\* The standard reflected CRC-32, bit by bit: each byte is XORed into the low
\* end of the register, which then moves right eight times, the reflected
\* polynomial 0xEDB88320 XORed in whenever a 1 falls off; the register starts
\* at 0xFFFFFFFF and is XORed with 0xFFFFFFFF at the end.
REFLECTED_POLY == <<60856, 33568>>

Halve(c) == <<c[1] \div 2, (c[2] \div 2) + (c[1] % 2) * 32768>>

RECURSIVE StdBits(_, _)
StdBits(c, k) ==
    IF k = 0 THEN c
    ELSE CHOOSE r \in {StdBits(c1, k - 1) :
                          c1 \in {IF c[2] % 2 = 1 THEN Xor(Halve(c), REFLECTED_POLY)
                                  ELSE Halve(c)}} : TRUE

RECURSIVE StdBytes(_, _, _)
StdBytes(c, d, i) ==
    IF i > Len(d) THEN c
    ELSE CHOOSE r \in {StdBytes(c1, d, i + 1) :
                          c1 \in {StdBits(Xor(c, <<0, d[i]>>), 8)}} : TRUE

StdCrc32(d) ==
    CHOOSE r \in {Xor(c, <<65535, 65535>>) : c \in {StdBytes(<<65535, 65535>>, d, 1)}} : TRUE

\* The checksum with the reversed byte XORed into the accumulator once, and
\* then eight steps that shift left and XOR the polynomial in when the top bit
\* of the accumulator was set.
RECURSIVE XorOnceBits(_, _, _)
XorOnceBits(c, sv, k) ==
    IF k = 0 THEN c
    ELSE CHOOSE r \in {XorOnceBits(c1, sv, k - 1) :
                          c1 \in {IF c[1] >= 32768 THEN Xor(Shl(c, 1), sv)
                                  ELSE Shl(c, 1)}} : TRUE

RECURSIVE XorOnceBytes(_, _, _, _)
XorOnceBytes(c, sv, d, i) ==
    IF i > Len(d) THEN c
    ELSE CHOOSE r \in {XorOnceBytes(c1, sv, d, i + 1) :
                          c1 \in {XorOnceBits(Xor(c, crc32_reverse(<<0, d[i]>>)), sv, 8)}} : TRUE

\* C12: finalize(checksum(0xFFFFFFFF, 0x04C11DB7, data)) is the standard
\* reflected CRC-32 of data; the accumulator checksum returns is the one the
\* XOR-once form gives; the result for empty data is 0 (and the one for
\* "123456789" is the check value 0xCBF43926 of CRC-32).
C12_StandardCrc32 ==
    /\ cacc # <<>> =>
          cacc[1] = XorOnceBytes(<<65535, 65535>>, U32(79764919), cdata, 1)
    /\ cfin # <<>> => cfin[1] = StdCrc32(cdata)
    /\ (cfin # <<>> /\ cdata = <<>>) => cfin[1] = <<0, 0>>
    /\ (cfin # <<>> /\ cdata = CheckString) => cfin[1] = <<52212, 14630>>

\* The checksum of "123456789" has been computed and finalized.
C12_Witness ==
    /\ cdata = CheckString
    /\ cacc # <<>>
    /\ cfin = <<<<52212, 14630>>>>

====
